---- MODULE Spec2Model ----
(***************************************************************************)
(* csv-i18n (src/src/index.js): a directory of CSV translation tables is   *)
(* folded into one table per language and written out either as flat      *)
(* TypeScript modules plus a key registry, or as nested i18next JSON.      *)
(*                                                                         *)
(* Three state machines share this module:                                 *)
(*   Spec       one run of convertCsvToTs (discovery, per-row aggregation, *)
(*              emission);                                                 *)
(*   NestSpec   the loop of nestObject over one flat table;                *)
(*   WatchSpec  the watch callback of startWatching and its child          *)
(*              processes (WatchLiveSpec adds the event loop's fairness).  *)
(*                                                                         *)
(* JavaScript strings are sequences of one-character strings, so that      *)
(* toLowerCase, trim, split, join, the two regular-expression replaces and *)
(* the default sort are computed, not assumed.  JavaScript values are      *)
(* tagged records ([type |-> "undefined"], [type |-> "string", val |-> s]) *)
(* and plain objects are sequences of [k, v] entries in insertion order,   *)
(* which is the order Object.keys, for-in and JSON.stringify follow for    *)
(* keys that are not array indices.  Property names that shadow members of *)
(* Object.prototype (__proto__, constructor, ...) and array-index-like     *)
(* names are outside the input sets drawn below.  fs.writeFile is taken to *)
(* succeed: outFiles lists the files the emitters write, with the object   *)
(* each one serializes.  The rows of a parsed file are drawn one by one as *)
(* the forEach callback reaches them, and console.warn is kept as the      *)
(* warnings of the last step.                                              *)
(***************************************************************************)
EXTENDS Integers, Sequences, FiniteSets, TLC

\* ------------------------------------------------------------------ strings

\* UTF-16 code units of the characters the inputs are written in.
CharCode(c) ==
  CASE c = " " -> 32 [] c = "." -> 46 [] c = "/" -> 47
    [] c = "A" -> 65 [] c = "B" -> 66 [] c = "C" -> 67 [] c = "K" -> 75
    [] c = "S" -> 83 [] c = "V" -> 86 [] c = "\\" -> 92
    [] c = "a" -> 97 [] c = "b" -> 98 [] c = "c" -> 99 [] c = "d" -> 100
    [] c = "e" -> 101 [] c = "i" -> 105 [] c = "j" -> 106 [] c = "k" -> 107
    [] c = "n" -> 110 [] c = "o" -> 111 [] c = "s" -> 115 [] c = "t" -> 116
    [] c = "v" -> 118 [] c = "x" -> 120 [] c = "y" -> 121

LowerChar(c) ==
  CASE c = "A" -> "a" [] c = "B" -> "b" [] c = "C" -> "c" [] c = "K" -> "k"
    [] c = "S" -> "s" [] c = "V" -> "v" [] OTHER -> c

\* String.prototype.toLowerCase
toLowerCase(s) == [i \in 1..Len(s) |-> LowerChar(s[i])]

RECURSIVE trimStart(_)
trimStart(s) == IF s # <<>> /\ s[1] = " " THEN trimStart(Tail(s)) ELSE s

RECURSIVE trimEnd(_)
trimEnd(s) ==
  IF s # <<>> /\ s[Len(s)] = " " THEN trimEnd(SubSeq(s, 1, Len(s) - 1)) ELSE s

\* String.prototype.trim
trim(s) == trimEnd(trimStart(s))

\* String.prototype.endsWith
endsWith(s, suffix) ==
  /\ Len(s) >= Len(suffix)
  /\ SubSeq(s, Len(s) - Len(suffix) + 1, Len(s)) = suffix

\* String.prototype.split with a one-character separator
RECURSIVE split(_, _)
split(s, sep) ==
  IF \A i \in 1..Len(s) : s[i] # sep
    THEN <<s>>
    ELSE LET i == CHOOSE j \in 1..Len(s) :
                    s[j] = sep /\ \A h \in 1..(j - 1) : s[h] # sep
         IN  <<SubSeq(s, 1, i - 1)>> \o split(SubSeq(s, i + 1, Len(s)), sep)

\* Array.prototype.join
RECURSIVE join(_, _)
join(parts, sep) ==
  IF parts = <<>> THEN <<>>
  ELSE IF Len(parts) = 1 THEN parts[1]
  ELSE parts[1] \o sep \o join(Tail(parts), sep)

\* a < b in the order Array.prototype.sort uses without a comparator
\* (code unit by code unit, a proper prefix first)
RECURSIVE StrLess(_, _)
StrLess(a, b) ==
  IF b = <<>> THEN FALSE
  ELSE IF a = <<>> THEN TRUE
  ELSE IF a[1] = b[1] THEN StrLess(Tail(a), Tail(b))
  ELSE CharCode(a[1]) < CharCode(b[1])

\* Array.prototype.sort() of an array of distinct strings
RECURSIVE sort(_)
sort(arr) ==
  IF arr = <<>> THEN <<>>
  ELSE LET m == CHOOSE i \in 1..Len(arr) :
                  \A j \in 1..Len(arr) : j = i \/ ~StrLess(arr[j], arr[i])
           rest == [j \in 1..(Len(arr) - 1) |-> IF j < m THEN arr[j] ELSE arr[j + 1]]
       IN  <<arr[m]>> \o sort(rest)

\* ------------------------------------------------------------------ paths

\* path.extname of a file name: from the last "." on, empty when there is no
\* "." or the only "." is the first character
extname(name) ==
  LET dots == {i \in 1..Len(name) : name[i] = "."}
  IN  IF dots = {} THEN <<>>
      ELSE LET d == CHOOSE i \in dots : \A j \in dots : j <= i
           IN  IF d = 1 THEN <<>> ELSE SubSeq(name, d, Len(name))

\* path.join(dir, name)
pathJoin(dir, name) == dir \o <<"/">> \o name

\* path.relative(from, to), for a `to` below `from`
pathRelative(from, to) == SubSeq(to, Len(from) + 2, Len(to))

\* ------------------------------------------------------------------ values

Undefined == [type |-> "undefined"]
Str(s) == [type |-> "string", val |-> s]
Obj == [type |-> "object"]

\* ToBoolean of a string or undefined: the tests `!key` and `if (x[k])`
Truthy(v) == v.type = "object" \/ (v.type = "string" /\ v.val # <<>>)

\* A plain object: its own properties in insertion order.
ObjKeys(o) == [i \in 1..Len(o) |-> o[i].k]
ObjHas(o, k) == \E i \in 1..Len(o) : o[i].k = k
\* o[k]
ObjGet(o, k) ==
  IF ObjHas(o, k) THEN o[CHOOSE i \in 1..Len(o) : o[i].k = k].v ELSE Undefined
\* o[k] = v: an existing property keeps its place, a new one goes last
ObjSet(o, k, v) ==
  IF ObjHas(o, k)
    THEN [i \in 1..Len(o) |-> IF o[i].k = k THEN [k |-> k, v |-> v] ELSE o[i]]
    ELSE Append(o, [k |-> k, v |-> v])

\* A row of parsed.data: a function from the header fields it has a cell for.
RowGet(r, field) == IF field \in DOMAIN r THEN r[field] ELSE Undefined

SeqToSet(q) == {q[i] : i \in 1..Len(q)}

\* ------------------------------------------------------------------ inputs

MaxRows == 2

s_key == <<"k", "e", "y">>
s_Key == <<"K", "e", "y">>
s_en == <<"e", "n">>
s_ja == <<"j", "a">>
s_csv == <<".", "c", "s", "v">>
s_ts == <<".", "t", "s">>
s_json == <<".", "j", "s", "o", "n">>
inputDir == <<"/", "i">>

File(name) == [name |-> name, kind |-> "file", readable |-> TRUE, entries |-> <<>>]
Dir(name, ok, entries) ==
  [name |-> name, kind |-> "dir", readable |-> ok, entries |-> entries]

d_a_csv == File(<<"a", ".", "c", "s", "v">>)
d_a_CSV == File(<<"a", ".", "C", "S", "V">>)
d_b_csv == File(<<"b", ".", "c", "s", "v">>)
d_n_txt == File(<<"n", ".", "t", "x", "t">>)
d_dotcsv == File(<<".", "c", "s", "v">>)
d_socket == [name |-> <<"s", ".", "c", "s", "v">>, kind |-> "other",
             readable |-> TRUE, entries |-> <<>>]

\* Listings of the input directory, in readdir order.
Trees ==
  { <<d_a_csv, d_a_CSV>>,
    <<d_b_csv, d_n_txt, d_a_csv>>,
    <<Dir(<<"a">>, TRUE, <<Dir(<<"c">>, TRUE, <<d_a_csv>>)>>)>>,
    <<Dir(<<"d">>, FALSE, <<d_a_csv>>), d_a_csv, Dir(<<"a">>, TRUE, <<d_b_csv>>)>>,
    <<d_n_txt, d_dotcsv, d_socket, Dir(<<"b", ".", "c", "s", "v">>, TRUE, <<>>)>>,
    <<>> }

\* parsed.meta.fields
Headers == { <<s_key, s_en>>, <<s_key, s_en, s_ja>>, <<s_Key, s_en>>, <<s_key>>, <<>> }

KeyCells == { <<"x">>, <<" ">>, <<>> }
LangCells == { <<"A">>, <<"B">>, <<>> }

CellsOf(field) == IF toLowerCase(field) = s_key THEN KeyCells ELSE LangCells

\* The rows Papa.parse (header: true, dynamicTyping: false) yields under a
\* header: every cell a string, a row shorter than the header lacking the
\* trailing fields.  A row whose key cell is blank is drawn with one filling
\* of its other cells only.
RowPool(h) ==
  UNION { { r \in [{h[i] : i \in 1..n} -> UNION {CellsOf(h[i]) : i \in 1..n}] :
              /\ \A i \in 1..n : r[h[i]] \in CellsOf(h[i])
              /\ \A i \in 1..n :
                   (CellsOf(h[i]) = KeyCells /\ trim(r[h[i]]) = <<>>)
                     => /\ n = Len(h)
                        /\ \A j \in 1..n : j # i => r[h[j]] = <<"A">> } :
          n \in 1..Len(h) }

JsRow(r) == [f \in DOMAIN r |-> Str(r[f])]

\* ------------------------------------------------------------------ discovery

\* findCsvFiles: the loop over one directory's dirents; a directory whose
\* readdir throws contributes nothing.
RECURSIVE scanDirents(_, _, _)
scanDirents(dir, dirents, csvFiles) ==
  IF dirents = <<>> THEN csvFiles
  ELSE LET dirent == dirents[1]
           fullPath == pathJoin(dir, dirent.name)
           found ==
             IF dirent.kind = "dir"
               THEN csvFiles \o
                    (IF dirent.readable
                       THEN scanDirents(fullPath, dirent.entries, <<>>)
                       ELSE <<>>)
             ELSE IF dirent.kind = "file" /\ toLowerCase(extname(dirent.name)) = s_csv
               THEN Append(csvFiles, fullPath)
             ELSE csvFiles
       IN  scanDirents(dir, Tail(dirents), found)

findCsvFiles(dir, dirents) == scanDirents(dir, dirents, <<>>)

\* ------------------------------------------------------------------ key derivation

replaceBackslashes(s) == [i \in 1..Len(s) |-> IF s[i] = "\\" THEN "/" ELSE s[i]]

\* .replace(/\.csv$/i, '')
stripCsv(s) ==
  IF Len(s) >= 4 /\ toLowerCase(SubSeq(s, Len(s) - 3, Len(s))) = s_csv
    THEN SubSeq(s, 1, Len(s) - 4)
    ELSE s

\* (variant: the path separators are not turned into dots)
BaseKeyUnsplit(csvFile) ==
  stripCsv(replaceBackslashes(pathRelative(inputDir, csvFile)))

BaseKey(csvFile) ==
  join(split(stripCsv(replaceBackslashes(pathRelative(inputDir, csvFile))), "/"),
       <<".">>)

LanguageColumns(fields) == SelectSeq(fields, LAMBDA f : toLowerCase(f) # s_key)

\* the test that skips a row
InvalidKey(key) == ~Truthy(key) \/ key.type # "string" \/ trim(key.val) = <<>>

FullKey(baseKey, key) == IF baseKey # <<>> THEN baseKey \o <<".">> \o key.val ELSE key.val

\* ------------------------------------------------------------------ aggregation

\* (variant: only a missing cell is skipped, an empty one is written)
HasValueAllowsEmpty(value) == value # Undefined

\* line 132: the cell is written only if it is there and not empty
HasValue(value) ==
  value # Undefined /\ ~(value.type = "string" /\ value.val = <<>>)

\* (variant: the warning does not compare the values)
IsDuplicateAnyValue(old, value) == Truthy(old)

\* lines 133-135: an entry is there and differs from the cell
IsDuplicate(old, value) == Truthy(old) /\ old # value

\* lines 129-141: languageColumns.forEach over one row
RECURSIVE writeCells(_, _, _, _, _)
writeCells(langs, r, fullKey, tbl, dup) ==
  IF langs = <<>> THEN [translationsByLang |-> tbl, duplicate |-> dup]
  ELSE LET lang == langs[1]
           value == RowGet(r, lang)
           old == ObjGet(ObjGet(tbl, lang), fullKey)
       IN  IF HasValue(value)
             THEN writeCells(Tail(langs), r, fullKey,
                             ObjSet(tbl, lang, ObjSet(ObjGet(tbl, lang), fullKey, value)),
                             IF IsDuplicate(old, value) THEN dup + 1 ELSE dup)
             ELSE writeCells(Tail(langs), r, fullKey, tbl, dup)

\* lines 102-106: a language seen for the first time gets an empty table
RECURSIVE initLanguages(_, _)
initLanguages(langs, tbl) ==
  IF langs = <<>> THEN tbl
  ELSE initLanguages(Tail(langs),
                     IF ~ObjHas(tbl, langs[1]) THEN ObjSet(tbl, langs[1], <<>>) ELSE tbl)

\* (variant: the key is not recorded)
SetAddDropped(set, x) == set

\* Set.prototype.add on a Set kept in insertion order
SetAdd(set, x) == IF x \in SeqToSet(set) THEN set ELSE Append(set, x)

\* ------------------------------------------------------------------ key tree

\* A nested object is the sequence of its nodes [path, node] in creation
\* order; node is Obj or a string value.  The children of a node, in the
\* order JSON.stringify writes them, are the entries one part longer in
\* sequence order.
TreeHas(tree, path) == \E i \in 1..Len(tree) : tree[i].path = path
TreeGet(tree, path) ==
  IF TreeHas(tree, path)
    THEN tree[CHOOSE i \in 1..Len(tree) : tree[i].path = path].node
    ELSE Undefined

IsProperPrefix(p, q) == Len(p) < Len(q) /\ SubSeq(q, 1, Len(p)) = p

\* current[part] = node, at the path of current[part]: an existing property
\* keeps its place and loses what hung below it
TreeAssign(tree, path, node) ==
  IF TreeHas(tree, path)
    THEN SelectSeq([i \in 1..Len(tree) |->
                      IF tree[i].path = path THEN [path |-> path, node |-> node]
                      ELSE tree[i]],
                   LAMBDA e : ~IsProperPrefix(path, e.path))
    ELSE Append(tree, [path |-> path, node |-> node])

\* (variant: a node in the way of a leaf goes unnoticed)
nodeConflictUnseen(cur) == FALSE

\* line 178: the last part meets a node already built
nodeConflict(cur) == Truthy(cur) /\ cur.type = "object"

\* line 187: a part on the way down meets a string value
valueConflict(cur) == cur.type = "string"

\* lines 174-204: the inner loop of nestObject for one key, from part i on
RECURSIVE nestParts(_, _, _, _, _)
nestParts(st, key, value, parts, i) ==
  LET path == SubSeq(parts, 1, i)
      cur == TreeGet(st.tree, path)
  IN  IF i = Len(parts)
        THEN [tree |-> TreeAssign(st.tree, path, value),
              warnings |->
                IF nodeConflict(cur)
                  THEN Append(st.warnings, [kind |-> "node", key |-> key])
                  ELSE st.warnings]
      ELSE IF valueConflict(cur)
        THEN [tree |-> st.tree,
              warnings |-> Append(st.warnings, [kind |-> "value", key |-> key])]
      ELSE IF ~Truthy(cur)
        THEN nestParts([tree |-> TreeAssign(st.tree, path, Obj),
                        warnings |-> st.warnings], key, value, parts, i + 1)
      ELSE IF cur.type # "object"
        THEN [tree |-> st.tree,
              warnings |-> Append(st.warnings, [kind |-> "nonobject", key |-> key])]
      ELSE nestParts(st, key, value, parts, i + 1)

\* lines 171-205: one iteration of `for (const key in flatObject)`
nestKey(st, key, value) == nestParts(st, key, value, split(key, "."), 1)

\* lines 169-207
RECURSIVE nestEntries(_, _)
nestEntries(st, entries) ==
  IF entries = <<>> THEN st
  ELSE nestEntries(nestKey(st, entries[1].k, entries[1].v), Tail(entries))

nestObject(flatObject) == nestEntries([tree |-> <<>>, warnings |-> <<>>], flatObject)

\* ------------------------------------------------------------------ emitters

\* lines 218-221: keyObject[key] = key over the sorted keys
RECURSIVE keyObject(_, _)
keyObject(sortedKeysArray, target) ==
  IF sortedKeysArray = <<>> THEN target
  ELSE keyObject(Tail(sortedKeysArray),
                 ObjSet(target, sortedKeysArray[1], Str(sortedKeysArray[1])))

\* (variant: key.ts is written whether or not there is a key)
keyFileAlways(keys) ==
  <<[name |-> s_key \o s_ts, content |-> keyObject(sort(keys), <<>>)]>>

\* lines 215-231: key.ts, only when there is a key
keyFile(keys) ==
  IF Len(keys) > 0
    THEN <<[name |-> s_key \o s_ts, content |-> keyObject(sort(keys), <<>>)]>>
    ELSE <<>>

\* lines 239-242: sortedLangData[key] = flatLangData[key] over the sorted keys
RECURSIVE copySorted(_, _, _)
copySorted(sortedKeys, flatLangData, target) ==
  IF sortedKeys = <<>> THEN target
  ELSE copySorted(Tail(sortedKeys), flatLangData,
                  ObjSet(target, sortedKeys[1], ObjGet(flatLangData, sortedKeys[1])))

\* lines 238-242
sortedLangData(flatLangData) ==
  copySorted(sort(ObjKeys(flatLangData)), flatLangData, <<>>)

\* lines 234-252
RECURSIVE langTsFiles(_, _)
langTsFiles(languages, tbl) ==
  IF languages = <<>> THEN <<>>
  ELSE <<[name |-> languages[1] \o s_ts,
          content |-> sortedLangData(ObjGet(tbl, languages[1]))]>>
       \o langTsFiles(Tail(languages), tbl)

\* lines 259-272
RECURSIVE langJsonFiles(_, _)
langJsonFiles(languages, tbl) ==
  IF languages = <<>> THEN <<>>
  ELSE <<[name |-> languages[1] \o s_json,
          content |-> nestObject(ObjGet(tbl, languages[1])).tree]>>
       \o langJsonFiles(Tail(languages), tbl)

RECURSIVE nestWarningCount(_, _)
nestWarningCount(languages, tbl) ==
  IF languages = <<>> THEN 0
  ELSE Len(nestObject(ObjGet(tbl, languages[1])).warnings)
       + nestWarningCount(Tail(languages), tbl)

\* ------------------------------------------------------------------ state

VARIABLES
  \* one run of convertCsvToTs
  format,             \* options.format
  tree,               \* the listing of the input directory
  pc,                 \* where the run is
  csvFiles,           \* the result of findCsvFiles
  fileIdx,            \* the position of `for (const csvFile of csvFiles)`
  fields,             \* parsed.meta.fields of the file being processed
  rowIdx,             \* rows of the file already through the forEach callback
  row,                \* the row the callback was last called with
  languageColumns,
  baseKey,
  translationsByLang,
  allKeys,
  warned,             \* the console.warn calls of the last step, by kind
  outFiles,           \* the fs.writeFile calls of the emitters, in order
  \* nestObject on its own
  flatObject,         \* the argument
  nestIdx,            \* keys of flatObject already through the for-in loop
  nested,             \* [tree, warnings]: the object built and the warnings
  \* startWatching
  isRunning,
  children,           \* the child processes spawned, each with its status
  nEvents,            \* watch callbacks delivered
  lastEvent           \* the filename of the last one

convVars ==
  <<format, tree, pc, csvFiles, fileIdx, fields, rowIdx, row,
    languageColumns, baseKey, translationsByLang, allKeys, warned, outFiles>>
nestVars == <<flatObject, nestIdx, nested>>
watchVars == <<isRunning, children, nEvents, lastEvent>>
vars == <<convVars, nestVars, watchVars>>

NoRow == [f \in {} |-> Undefined]
NoWarnings == [duplicate |-> 0, skippedRow |-> 0, nest |-> 0]

ConvIdle ==
  /\ format = "typescript" /\ tree = <<>> /\ pc = "off"
  /\ csvFiles = <<>> /\ fileIdx = 0 /\ fields = <<>> /\ rowIdx = 0
  /\ row = NoRow /\ languageColumns = <<>> /\ baseKey = <<>>
  /\ translationsByLang = <<>> /\ allKeys = <<>>
  /\ warned = NoWarnings
  /\ outFiles = <<>>

NestIdle ==
  /\ flatObject = <<>> /\ nestIdx = 0
  /\ nested = [tree |-> <<>>, warnings |-> <<>>]

WatchIdle ==
  /\ isRunning = FALSE /\ children = <<>> /\ nEvents = 0
  /\ lastEvent = [type |-> "null"]

\* ------------------------------------------------------------------ convertCsvToTs

Init ==
  /\ format \in {"typescript", "i18next"}
  /\ tree \in Trees
  /\ pc = "start"
  /\ csvFiles = <<>> /\ fileIdx = 0 /\ fields = <<>> /\ rowIdx = 0
  /\ row = NoRow /\ languageColumns = <<>> /\ baseKey = <<>>
  /\ translationsByLang = <<>> /\ allKeys = <<>>
  /\ warned = NoWarnings
  /\ outFiles = <<>>
  /\ NestIdle /\ WatchIdle

\* lines 51-65: fs.access or fs.mkdir fails, process.exit(1)
StartFails ==
  /\ pc = "start"
  /\ pc' = "exit1"
  /\ UNCHANGED <<format, tree, csvFiles, fileIdx, fields, rowIdx, row, languageColumns,
                 baseKey, translationsByLang, allKeys, warned, outFiles,
                 nestVars, watchVars>>

\* lines 67-72
FindFiles ==
  /\ pc = "start"
  /\ csvFiles' = findCsvFiles(inputDir, tree)
  /\ fileIdx' = 1
  /\ pc' = IF Len(csvFiles') = 0 THEN "done" ELSE "loop"
  /\ UNCHANGED <<format, tree, fields, rowIdx, row, languageColumns, baseKey,
                 translationsByLang, allKeys, warned, outFiles, nestVars, watchVars>>

\* lines 82-97 and 146-148: readFile throws, or the parse has no header fields
SkipFile ==
  /\ pc = "loop" /\ fileIdx <= Len(csvFiles)
  /\ fileIdx' = fileIdx + 1
  /\ warned' = NoWarnings
  /\ UNCHANGED <<format, tree, pc, csvFiles, fields, rowIdx, row, languageColumns,
                 baseKey, translationsByLang, allKeys, outFiles, nestVars, watchVars>>

\* lines 82-117: the file is read and parsed, its languages get their tables,
\* its namespace is derived
ReadFile ==
  /\ pc = "loop" /\ fileIdx <= Len(csvFiles)
  /\ \E h \in Headers :
       /\ fields' = h
       /\ languageColumns' = LanguageColumns(h)
       /\ translationsByLang' = initLanguages(LanguageColumns(h), translationsByLang)
  /\ baseKey' = BaseKey(csvFiles[fileIdx])
  /\ rowIdx' = 0
  /\ row' = NoRow
  /\ warned' = NoWarnings
  /\ pc' = "rows"
  /\ UNCHANGED <<format, tree, csvFiles, fileIdx, allKeys, outFiles,
                 nestVars, watchVars>>

\* lines 119-144: the forEach callback on the next row of parsed.data; the
\* rows are drawn as the callback reaches them
ProcessRow ==
  /\ pc = "rows" /\ rowIdx < MaxRows
  /\ \E r \in RowPool(fields) :
       LET key == RowGet(JsRow(r), s_key)
           fullKey == FullKey(baseKey, key)
           written == writeCells(languageColumns, JsRow(r), fullKey,
                                 translationsByLang, 0)
       IN  /\ row' = JsRow(r)
           /\ IF InvalidKey(key)
                THEN /\ warned' = [NoWarnings EXCEPT !.skippedRow = 1]
                     /\ UNCHANGED <<translationsByLang, allKeys>>
                ELSE /\ translationsByLang' = written.translationsByLang
                     /\ warned' = [NoWarnings EXCEPT !.duplicate = written.duplicate]
                     /\ allKeys' = SetAdd(allKeys, fullKey)
  /\ rowIdx' = rowIdx + 1
  /\ UNCHANGED <<format, tree, pc, csvFiles, fileIdx, fields, languageColumns,
                 baseKey, outFiles, nestVars, watchVars>>

\* parsed.data is exhausted: on to the next file
EndFile ==
  /\ pc = "rows"
  /\ fileIdx' = fileIdx + 1
  /\ pc' = "loop"
  /\ fields' = <<>> /\ rowIdx' = 0 /\ row' = NoRow
  /\ languageColumns' = <<>> /\ baseKey' = <<>>
  /\ warned' = NoWarnings
  /\ UNCHANGED <<format, tree, csvFiles, translationsByLang, allKeys, outFiles,
                 nestVars, watchVars>>

AllFilesProcessed == pc = "loop" /\ fileIdx > Len(csvFiles)

\* lines 152-156
NoLanguages ==
  /\ AllFilesProcessed
  /\ ObjKeys(translationsByLang) = <<>>
  /\ pc' = "done"
  /\ warned' = NoWarnings
  /\ UNCHANGED <<format, tree, csvFiles, fileIdx, fields, rowIdx, row, languageColumns,
                 baseKey, translationsByLang, allKeys, outFiles, nestVars, watchVars>>

\* lines 159-160 and 211-253
GenerateTypeScriptFiles ==
  /\ AllFilesProcessed
  /\ ObjKeys(translationsByLang) # <<>>
  /\ format = "typescript"
  /\ outFiles' = keyFile(allKeys)
                 \o langTsFiles(ObjKeys(translationsByLang), translationsByLang)
  /\ warned' = NoWarnings
  /\ pc' = "done"
  /\ UNCHANGED <<format, tree, csvFiles, fileIdx, fields, rowIdx, row, languageColumns,
                 baseKey, translationsByLang, allKeys, nestVars, watchVars>>

\* lines 161-162 and 255-273
GenerateI18nextFiles ==
  /\ AllFilesProcessed
  /\ ObjKeys(translationsByLang) # <<>>
  /\ format = "i18next"
  /\ outFiles' = langJsonFiles(ObjKeys(translationsByLang), translationsByLang)
  /\ warned' = [NoWarnings EXCEPT
                  !.nest = nestWarningCount(ObjKeys(translationsByLang),
                                            translationsByLang)]
  /\ pc' = "done"
  /\ UNCHANGED <<format, tree, csvFiles, fileIdx, fields, rowIdx, row, languageColumns,
                 baseKey, translationsByLang, allKeys, nestVars, watchVars>>

Next ==
  \/ StartFails
  \/ FindFiles
  \/ SkipFile
  \/ ReadFile
  \/ ProcessRow
  \/ EndFile
  \/ NoLanguages
  \/ GenerateTypeScriptFiles
  \/ GenerateI18nextFiles

Spec == Init /\ [][Next]_vars

\* ------------------------------------------------------------------ nestObject alone

MaxKeys == 3

\* The keys of the flat tables nestObject is run on, as their parts.
NestPaths ==
  { << <<"a">> >>, << <<"a">>, <<"b">> >>, << <<"a">>, <<"b">>, <<"c">> >>,
    << <<"a">>, <<"b">>, <<"d">> >>, << <<"b">> >> }
NestKeys == { join(p, <<".">>) : p \in NestPaths }
NestValues == { Str(<<"A">>), Str(<<"B">>) }

\* Flat tables: up to MaxKeys distinct keys in any insertion order, each with
\* a non-empty string value.
FlatObjects ==
  UNION { { o \in [1..n -> [k : NestKeys, v : NestValues]] :
              \A i, j \in 1..n : i # j => o[i].k # o[j].k } : n \in 0..MaxKeys }

NestInit ==
  /\ flatObject \in FlatObjects
  /\ nestIdx = 0
  /\ nested = [tree |-> <<>>, warnings |-> <<>>]
  /\ ConvIdle /\ WatchIdle

\* lines 171-205: the for-in loop takes the next key
NestKey ==
  /\ nestIdx < Len(flatObject)
  /\ nested' = nestKey(nested, flatObject[nestIdx + 1].k, flatObject[nestIdx + 1].v)
  /\ nestIdx' = nestIdx + 1
  /\ UNCHANGED <<flatObject, convVars, watchVars>>

NestNext == NestKey

NestSpec == NestInit /\ [][NestNext]_vars

\* ------------------------------------------------------------------ startWatching

MaxEvents == 4

Null == [type |-> "null"]

\* the filename argument of the watch callback
WatchFilenames ==
  { Str(<<"a", ".", "c", "s", "v">>),
    Str(<<"d", "/", "b", ".", "C", "S", "V">>),
    Str(<<"n", ".", "t", "x", "t">>),
    Str(<<"c", "s", "v">>),
    Null }

\* (variant: the busy flag is not consulted)
skipsEventNever(running) == FALSE

\* line 299
skipsEvent(running) == running

\* line 305
isCsvChange(filename) ==
  /\ filename.type = "string" /\ filename.val # <<>>
  /\ endsWith(toLowerCase(filename.val), s_csv)

\* (variant: the listener leaves the flag as it is)
afterCloseKept(running) == running

\* line 319: the flag after the 'close' listener
afterClose(running) == FALSE

\* line 324: the flag after the 'error' listener
afterError(running) == FALSE

WatchInit ==
  /\ isRunning = FALSE
  /\ children = <<>>
  /\ nEvents = 0
  /\ lastEvent = Null
  /\ ConvIdle /\ NestIdle

\* lines 298-333: the watch callback.  A spawned child either starts
\* ("running") or fails to start ("failed", its 'error' event still to come).
WatchEvent ==
  /\ nEvents < MaxEvents
  /\ nEvents' = nEvents + 1
  /\ \E filename \in WatchFilenames :
       /\ lastEvent' = filename
       /\ IF skipsEvent(isRunning)
            THEN UNCHANGED <<isRunning, children>>
          ELSE IF isCsvChange(filename)
            THEN /\ isRunning' = TRUE
                 /\ \E started \in {"running", "failed"} :
                      children' = Append(children, started)
          ELSE UNCHANGED <<isRunning, children>>
  /\ UNCHANGED <<convVars, nestVars>>

\* a running conversion process terminates
ChildExits ==
  /\ \E i \in 1..Len(children) :
       /\ children[i] = "running"
       /\ children' = [children EXCEPT ![i] = "exited"]
  /\ UNCHANGED <<isRunning, nEvents, lastEvent, convVars, nestVars>>

\* lines 317-320: the 'close' listener of a child that has terminated
OnClose ==
  /\ \E i \in 1..Len(children) :
       /\ children[i] = "exited"
       /\ children' = [children EXCEPT ![i] = "closed"]
  /\ isRunning' = afterClose(isRunning)
  /\ UNCHANGED <<nEvents, lastEvent, convVars, nestVars>>

\* lines 322-325: the 'error' listener of a child that failed to start; node
\* emits that child's 'close' in the same tick, so its listener runs too
OnError ==
  /\ \E i \in 1..Len(children) :
       /\ children[i] = "failed"
       /\ children' = [children EXCEPT ![i] = "closed"]
  /\ isRunning' = afterClose(afterError(isRunning))
  /\ UNCHANGED <<nEvents, lastEvent, convVars, nestVars>>

WatchNext ==
  \/ WatchEvent
  \/ ChildExits
  \/ OnClose
  \/ OnError

WatchSpec == WatchInit /\ [][WatchNext]_vars

\* The event loop delivers a pending 'close' or 'error' event.
WatchLiveSpec == WatchSpec /\ WF_vars(OnClose) /\ WF_vars(OnError)

\* ------------------------------------------------------------------ vocabulary of the claims

Languages == {s_en, s_ja}

\* the entry of language L at key K, Undefined when there is none
Entry(tbl, L, K) ==
  IF ObjHas(tbl, L) THEN ObjGet(ObjGet(tbl, L), K) ELSE Undefined

TableKeys(tbl) == UNION {SeqToSet(ObjKeys(tbl[i].v)) : i \in 1..Len(tbl)}

\* row r has a non-empty cell in the column of language L
Supplies(r, L) == L \in DOMAIN r /\ r[L].type = "string" /\ Len(r[L].val) > 0

\* the step is a call of the forEach callback, on row'
RowStep == rowIdx' = rowIdx + 1

\* the row last passed to the callback got through key validation
Survived(w) == w.skippedRow = 0

IsSorted(keys) == \A i, j \in 1..Len(keys) : i < j => StrLess(keys[i], keys[j])

dot == <<".">>
k_ax == <<"a", ".", "x">>
f_a_csv == <<"/", "i", "/", "a", ".", "c", "s", "v">>
f_a_CSV == <<"/", "i", "/", "a", ".", "C", "S", "V">>
f_b_csv == <<"/", "i", "/", "b", ".", "c", "s", "v">>
f_a_b_csv == <<"/", "i", "/", "a", "/", "b", ".", "c", "s", "v">>
f_a_c_a_csv == <<"/", "i", "/", "a", "/", "c", "/", "a", ".", "c", "s", "v">>

\* ------------------------------------------------------------------ C1

\* C1: every call of the row callback leaves each entry (L, K) alone except
\* the entries (L, fullKey) of the languages the row has a non-empty cell for,
\* which become that cell (so the entry is always the last non-empty cell
\* supplied for it); and it warns once for each of these entries that was
\* there with a different value, never for one that was absent or equal.
C1_LastWriterWins ==
  [][RowStep =>
       LET target == IF Survived(warned')
                       THEN {FullKey(baseKey, RowGet(row', s_key))} ELSE {}
           writes == {L \in Languages :
                        Survived(warned') /\ L \in SeqToSet(fields) /\ Supplies(row', L)}
       IN  /\ \A L \in Languages :
                \A K \in TableKeys(translationsByLang) \cup TableKeys(translationsByLang')
                         \cup target :
                  Entry(translationsByLang', L, K) =
                    IF L \in writes /\ K \in target THEN row'[L]
                    ELSE Entry(translationsByLang, L, K)
           /\ warned'.duplicate =
                Cardinality({L \in writes :
                               \E K \in target :
                                 /\ Entry(translationsByLang, L, K) # Undefined
                                 /\ Entry(translationsByLang, L, K) # row'[L]})
  ]_vars

\* the second file rewrites en at a.x from A to B, with one warning
C1_Witness ==
  /\ pc = "rows" /\ fileIdx = 2 /\ rowIdx = 1
  /\ csvFiles = <<f_a_csv, f_a_CSV>>
  /\ Supplies(row, s_en) /\ row[s_en] = Str(<<"B">>)
  /\ Entry(translationsByLang, s_en, k_ax) = Str(<<"B">>)
  /\ warned.duplicate = 1

\* ------------------------------------------------------------------ C2

FileNamed(name) == {i \in 1..Len(outFiles) : outFiles[i].name = name}
ContentKeys(i) == SeqToSet(ObjKeys(outFiles[i].content))

\* C2: at every point of a run no language's table has a key outside allKeys,
\* and after a typescript run every key of an emitted language file is a key of
\* the emitted key.ts.
C2_RegistrySuperset ==
  /\ TableKeys(translationsByLang) \subseteq SeqToSet(allKeys)
  /\ (pc = "done" /\ format = "typescript") =>
       \A i \in 1..Len(outFiles) :
         outFiles[i].name # s_key \o s_ts =>
           \A K \in ContentKeys(i) :
             \E j \in FileNamed(s_key \o s_ts) : K \in ContentKeys(j)

\* key.ts lists a key that the emitted en.ts lacks, and en.ts has a key
C2_Witness ==
  /\ pc = "done" /\ format = "typescript"
  /\ \E i \in FileNamed(s_en \o s_ts), j \in FileNamed(s_key \o s_ts) :
       /\ ContentKeys(i) # {}
       /\ ContentKeys(j) \ ContentKeys(i) # {}

\* ------------------------------------------------------------------ C3

\* C3: a call of the row callback on a row without a non-empty cell for L
\* leaves every entry of L as it was; an entry of L appears or changes only in
\* a call on a surviving row that has a non-empty cell for L, and only at that
\* row's key; and an emitted file of L has no key that L's table lacks.
C3_EmptyValueExclusion ==
  /\ [][\A L \in Languages :
          \A K \in TableKeys(translationsByLang) \cup TableKeys(translationsByLang') :
            Entry(translationsByLang', L, K) # Entry(translationsByLang, L, K) =>
              /\ RowStep
              /\ Survived(warned')
              /\ Supplies(row', L)
              /\ Entry(translationsByLang', L, K) = row'[L]
              /\ K = FullKey(baseKey, RowGet(row', s_key))
     ]_vars
  /\ [](\A i \in 1..Len(outFiles) :
          \A L \in Languages :
            LET own == {K \in TableKeys(translationsByLang) :
                          Entry(translationsByLang, L, K) # Undefined}
            IN  /\ outFiles[i].name = L \o s_ts => ContentKeys(i) \subseteq own
                /\ outFiles[i].name = L \o s_json =>
                     \A n \in 1..Len(outFiles[i].content) :
                       outFiles[i].content[n].node.type = "string" =>
                         join(outFiles[i].content[n].path, dot) \in own)

\* a row with an empty en cell and a ja cell: ja has the key, en does not
C3_Witness ==
  /\ pc = "rows" /\ rowIdx > 0
  /\ s_en \in DOMAIN row /\ row[s_en] = Str(<<>>)
  /\ Supplies(row, s_ja)
  /\ \E K \in SeqToSet(allKeys) :
       /\ Entry(translationsByLang, s_ja, K) = row[s_ja]
       /\ Entry(translationsByLang, s_en, K) = Undefined

\* ------------------------------------------------------------------ C4

HasKeyField(h) == \E i \in 1..Len(h) : toLowerCase(h[i]) = s_key
KeyField(h) == h[CHOOSE i \in 1..Len(h) : toLowerCase(h[i]) = s_key]

\* C4: a row whose cell in the column named key in any casing is not blank
\* survives: its key, under the file's namespace, is in allKeys and each
\* non-empty language cell is the entry of its language.
C4_KeyColumnAnyCase ==
  (/\ pc = "rows" /\ rowIdx > 0
   /\ HasKeyField(fields)
   /\ KeyField(fields) \in DOMAIN row
   /\ trim(row[KeyField(fields)].val) # <<>>)
  => LET K == baseKey \o dot \o row[KeyField(fields)].val
     IN  /\ K \in SeqToSet(allKeys)
         /\ \A L \in Languages :
              Supplies(row, L) => Entry(translationsByLang, L, K) = row[L]

\* ------------------------------------------------------------------ C5

InRoot(csvFile) == csvFile \in {f_a_csv, f_a_CSV, f_b_csv}

\* the namespace the claim's second half gives each file of the listings
PathNamespace(csvFile) ==
  CASE csvFile = f_a_csv -> <<"a">>
    [] csvFile = f_a_CSV -> <<"a">>
    [] csvFile = f_b_csv -> <<"b">>
    [] csvFile = f_a_b_csv -> <<"a", ".", "b">>
    [] csvFile = f_a_c_a_csv -> <<"a", ".", "c", ".", "a">>

C6_NoEmptyOutput ==
  (pc = "done" /\ (allKeys = <<>> \/ ObjKeys(translationsByLang) = <<>>)) =>
    outFiles = <<>>

\* C6 amended: a finished run without a language has written no file; a
\* finished run without a key has written no key.ts, and for each language a
\* header declared one file, .ts or .json by the format, holding the empty
\* mapping.
C6_OnlyRegistrySkipped ==
  pc = "done" =>
    /\ ObjKeys(translationsByLang) = <<>> => outFiles = <<>>
    /\ allKeys = <<>> =>
         /\ FileNamed(s_key \o s_ts) = {}
         /\ Len(outFiles) = Len(translationsByLang)
         /\ \A i \in 1..Len(outFiles) :
              /\ outFiles[i].content = <<>>
              /\ outFiles[i].name =
                   translationsByLang[i].k
                     \o (IF format = "typescript" THEN s_ts ELSE s_json)

\* no row survived, en was declared: en.json is written, empty
C6_Witness ==
  /\ pc = "done" /\ allKeys = <<>> /\ format = "i18next"
  /\ outFiles = <<[name |-> s_en \o s_json, content |-> <<>>]>>

\* ------------------------------------------------------------------ C8

\* C8: an emitted typescript mapping lists its keys sorted, and an emitted
\* i18next tree is the tree built from the language's table with its keys
\* sorted.
C8_EmittersSortKeys ==
  pc = "done" =>
    \A i \in 1..Len(outFiles) :
      IF format = "typescript"
        THEN IsSorted(ObjKeys(outFiles[i].content))
        ELSE outFiles[i].content =
               nestObject(sortedLangData(
                 ObjGet(translationsByLang, ObjKeys(translationsByLang)[i]))).tree

\* ------------------------------------------------------------------ C7

PartsOf(key) == CHOOSE p \in NestPaths : join(p, dot) = key

\* C7: when the loop takes a key whose path holds a node, the node and all
\* below it give way to the key's value, with one warning; when it takes a key
\* with a string value somewhere on the way to its path, the tree stays as it
\* is, with one warning.
C7_TreeConflictPolicy ==
  [][nestIdx' = nestIdx + 1 =>
       LET e == flatObject[nestIdx']
           parts == PartsOf(e.k)
           blocked == \E n \in 1..(Len(parts) - 1) :
                        TreeGet(nested.tree, SubSeq(parts, 1, n)).type = "string"
           atNode == TreeGet(nested.tree, parts).type = "object"
       IN  /\ blocked =>
                /\ nested'.tree = nested.tree
                /\ Len(nested'.warnings) = Len(nested.warnings) + 1
                /\ nested'.warnings[Len(nested'.warnings)].key = e.k
           /\ (~blocked /\ atNode) =>
                /\ TreeGet(nested'.tree, parts) = e.v
                /\ \A i \in 1..Len(nested'.tree) :
                     ~IsProperPrefix(parts, nested'.tree[i].path)
                /\ \A i \in 1..Len(nested.tree) :
                     (nested.tree[i].path # parts
                      /\ ~IsProperPrefix(parts, nested.tree[i].path)) =>
                       TreeGet(nested'.tree, nested.tree[i].path) = nested.tree[i].node
                /\ Len(nested'.warnings) = Len(nested.warnings) + 1
                /\ nested'.warnings[Len(nested'.warnings)].key = e.k
           /\ (~blocked /\ ~atNode) =>
                /\ TreeGet(nested'.tree, parts) = e.v
                /\ nested'.warnings = nested.warnings
  ]_vars

\* a.b.c, then a.b over the node it made, then a.b.d stopped by the string
C7_Witness ==
  /\ nestIdx = 3
  /\ ObjKeys(flatObject) = << <<"a", ".", "b", ".", "c">>, <<"a", ".", "b">>,
                              <<"a", ".", "b", ".", "d">> >>
  /\ TreeGet(nested.tree, << <<"a">>, <<"b">> >>) = flatObject[2].v
  /\ ~TreeHas(nested.tree, << <<"a">>, <<"b">>, <<"c">> >>)
  /\ ~TreeHas(nested.tree, << <<"a">>, <<"b">>, <<"d">> >>)
  /\ Len(nested.warnings) = 2

\* ------------------------------------------------------------------ C9, C10

InFlight == {i \in 1..Len(children) : children[i] = "running"}
EventStep == nEvents' = nEvents + 1
CsvNames ==
  { Str(<<"a", ".", "c", "s", "v">>), Str(<<"d", "/", "b", ".", "C", "S", "V">>) }

\* C9: never two children in flight; a watch callback that comes while a child
\* is in flight spawns nothing; and a child is spawned only inside the callback
\* of a .csv event that came with no child in flight, one child per callback.
C9_MutualExclusion ==
  /\ [](Cardinality(InFlight) <= 1)
  /\ [][(EventStep /\ InFlight # {}) => children' = children]_vars
  /\ [][Len(children') > Len(children) =>
          /\ EventStep
          /\ lastEvent' \in CsvNames
          /\ InFlight = {}
          /\ Len(children') = Len(children) + 1
     ]_vars

\* a second .csv event came while the first child was in flight: still one child
C9_Witness ==
  /\ nEvents = 2
  /\ children = <<"running">>
  /\ lastEvent \in CsvNames

Terminated == \E i \in 1..Len(children) : children[i] \in {"exited", "failed"}

\* C10: once a child has exited or failed to start the flag is cleared; a .csv
\* event that finds the flag clear spawns exactly one child and sets it; an
\* event on anything else leaves the flag and the children alone.
C10_Progress ==
  /\ Terminated ~> ~isRunning
  /\ [][(EventStep /\ ~isRunning /\ lastEvent' \in CsvNames) =>
          (isRunning' /\ Len(children') = Len(children) + 1)]_vars
  /\ [][(EventStep /\ lastEvent' \notin CsvNames) =>
          (isRunning' = isRunning /\ children' = children)]_vars

\* the first child is done and a later .csv event has started a second run
C10_Witness ==
  /\ Len(children) = 2
  /\ children[1] = "closed"
  /\ children[2] = "running"
  /\ isRunning

====
